---------------------------- MODULE Spec2Model ----------------------------
(***************************************************************************)
(* Model of src/main.ts: a straight-line script that maps x => x + 1 over  *)
(* an array literal, prints the result, then passes a number[] to          *)
(* mutateItems, which pushes a string onto it, and prints that array.      *)
(*                                                                         *)
(* Arrays are heap objects reached through references, so that the         *)
(* difference between aliasing and copying is visible.  The address the    *)
(* allocator hands out is not determined by the script and is chosen       *)
(* nondeterministically.  Numbers are IEEE-754 doubles; an integer value   *)
(* is written k * 2^53 + d with a small offset d, which is enough to       *)
(* follow x + 1 across the limit of exactly representable integers.        *)
(***************************************************************************)
EXTENDS Integers, Sequences, FiniteSets, TLC

VARIABLES
    pc,       \* the statement the script executes next
    heap,     \* allocated array objects, by address
    litA,     \* elements of the array literal of line 1
    litC,     \* elements of the array literal of line 9
    src,      \* reference to the temporary array of line 1 (receiver of map)
    list,     \* const list
    numbers,  \* const numbers
    items,    \* parameter of mutateItems while a call is active
    calls,    \* number of calls of mutateItems that have returned
    out       \* what console.log has written, one entry per call

vars == <<pc, heap, litA, litC, src, list, numbers, items, calls, out>>

---------------------------------------------------------------------------
(* Bounds of the model *)

NumAddrs == 4     \* addresses the allocator can hand out
MaxLenA  == 2     \* longest receiver of map in the generalised runs
MaxLenC  == 3     \* longest argument of mutateItems in the generalised runs
MaxOff   == 1     \* largest offset |d| of a number k * 2^53 + d in the inputs
MaxCalls == 3     \* successive calls of mutateItems in the generalised runs

---------------------------------------------------------------------------
(* Values *)

Null == 0
Addr == 1..NumAddrs

\* type Item = string | number.  A number is k * 2^53 + d.
Num(k, d) == [tag |-> "number", k |-> k, d |-> d, s |-> ""]
Str(s)    == [tag |-> "string", k |-> 0, d |-> 0, s |-> s]
N(d)      == Num(0, d)

\* The integers a double holds exactly: all of them up to magnitude 2^53,
\* only the even ones from there to 2^54.
Representable(k, d) ==
    \/ k = 0
    \/ k = 1  /\ (d <= 0 \/ d % 2 = 0)
    \/ k = -1 /\ (d >= 0 \/ d % 2 = 0)

\* The mathematical successor of an integer.
ExactSucc(x) == [x EXCEPT !.d = @ + 1]

\* x => x + 1 on a number: the exact sum rounded to the nearest double,
\* ties to the even significand (the neighbour that is a multiple of 4).
\* (AddOneTwice is a faulty variant, x => x + 2.)
AddOneTwice(x) == [x EXCEPT !.d = @ + 2]

AddOne(x) ==
    LET y == ExactSucc(x)
    IN  IF Representable(y.k, y.d) THEN y
        ELSE IF x.d % 4 = 0 THEN x
        ELSE [x EXCEPT !.d = @ + 2]

\* Array.prototype.map with the callback of line 1: a new array, filled
\* index by index from the receiver.
\* (MapLoopReversed is a faulty variant that fills the result back to front.)
RECURSIVE MapLoopReversed(_, _, _)
MapLoopReversed(O, k, A) ==
    IF k > Len(O) THEN A
    ELSE MapLoopReversed(O, k + 1, <<AddOne(O[k])>> \o A)

RECURSIVE MapLoop(_, _, _)
MapLoop(O, k, A) ==
    IF k > Len(O) THEN A
    ELSE MapLoop(O, k + 1, Append(A, AddOne(O[k])))

map(O) == MapLoop(O, 1, <<>>)

\* An array literal evaluates to a new, extensible array object.
\* (ArrayLiteralFrozen is a faulty variant that yields a frozen array.)
ArrayLiteralFrozen(elems) == [elems |-> elems, frozen |-> TRUE]

ArrayLiteral(elems) == [elems |-> elems, frozen |-> FALSE]

\* Addresses the allocator may return: those holding no object.
Free(h) == Addr \ DOMAIN h

\* The value pushed at line 6.
\* (PushedNumber is a faulty variant that respects the element type.)
PushedNumber == N(0)

PushedItem == Str("Hello world")

\* Array.prototype.push(v) on elements e.
\* (Faulty variants: PushFront behaves as unshift, PushOnce appends v only
\* when it is not already the last element.)
PushFront(e, v) == <<v>> \o e

PushOnce(e, v) == IF Len(e) > 0 /\ e[Len(e)] = v THEN e ELSE Append(e, v)

Push(e, v) == Append(e, v)

Elems(r) == heap[r].elems

---------------------------------------------------------------------------
(* The script, one action per step *)

\* line 1, the literal [1, 2, 3]
Lit1 ==
    /\ pc = "lit1"
    /\ \E a \in Free(heap) :
          /\ heap' = (a :> ArrayLiteral(litA)) @@ heap
          /\ src' = a
    /\ pc' = "map1"
    /\ UNCHANGED <<litA, litC, list, numbers, items, calls, out>>

\* line 1, .map(x => x + 1) and the binding of list
Map1 ==
    /\ pc = "map1"
    /\ \E a \in Free(heap) :
          /\ heap' = (a :> ArrayLiteral(map(Elems(src)))) @@ heap
          /\ list' = a
    /\ pc' = "log2"
    /\ UNCHANGED <<litA, litC, src, numbers, items, calls, out>>

\* line 2, console.log(list)
Log2 ==
    /\ pc = "log2"
    /\ out' = Append(out, Elems(list))
    /\ pc' = "lit9"
    /\ UNCHANGED <<heap, litA, litC, src, list, numbers, items, calls>>

\* line 9, const numbers = [1, 2, 3]
Lit9 ==
    /\ pc = "lit9"
    /\ \E a \in Free(heap) :
          /\ heap' = (a :> ArrayLiteral(litC)) @@ heap
          /\ numbers' = a
    /\ pc' = "call11"
    /\ UNCHANGED <<litA, litC, src, list, items, calls, out>>

\* line 11, mutateItems(numbers): the parameter receives the reference
\* (Faulty variants: Call11Skipped omits the call, Call11Copy passes a copy
\* of the array, Call11List passes list in place of numbers.)
Call11Skipped ==
    /\ pc = "call11"
    /\ pc' = "log13"
    /\ UNCHANGED <<heap, litA, litC, src, list, numbers, items, calls, out>>

Call11Copy ==
    /\ pc = "call11"
    /\ \E a \in Free(heap) :
          /\ heap' = (a :> ArrayLiteral(Elems(numbers))) @@ heap
          /\ items' = a
    /\ pc' = "push6"
    /\ UNCHANGED <<litA, litC, src, list, numbers, calls, out>>

Call11List ==
    /\ pc = "call11"
    /\ items' = list
    /\ pc' = "push6"
    /\ UNCHANGED <<heap, litA, litC, src, list, numbers, calls, out>>

Call11 ==
    /\ pc = "call11"
    /\ items' = numbers
    /\ pc' = "push6"
    /\ UNCHANGED <<heap, litA, litC, src, list, numbers, calls, out>>

\* line 6, items.push("Hello world"); push throws on a frozen array
Push6 ==
    /\ pc = "push6"
    /\ IF heap[items].frozen
          THEN /\ pc' = "error"
               /\ heap' = heap
          ELSE /\ pc' = "ret7"
               /\ heap' = [heap EXCEPT ![items].elems = Push(@, PushedItem)]
    /\ UNCHANGED <<litA, litC, src, list, numbers, items, calls, out>>

\* line 7, mutateItems returns
Ret7 ==
    /\ pc = "ret7"
    /\ items' = Null
    /\ calls' = calls + 1
    /\ pc' = "log13"
    /\ UNCHANGED <<heap, litA, litC, src, list, numbers, out>>

\* line 13, console.log(numbers)
\* (Log13List is a faulty variant that prints list.)
Log13List ==
    /\ pc = "log13"
    /\ out' = Append(out, Elems(list))
    /\ pc' = "done"
    /\ UNCHANGED <<heap, litA, litC, src, list, numbers, items, calls>>

Log13 ==
    /\ pc = "log13"
    /\ out' = Append(out, Elems(numbers))
    /\ pc' = "done"
    /\ UNCHANGED <<heap, litA, litC, src, list, numbers, items, calls>>

\* A further call mutateItems(numbers), for the claims about repeated calls.
CallAgain ==
    /\ pc = "log13"
    /\ calls < MaxCalls
    /\ items' = numbers
    /\ pc' = "push6"
    /\ UNCHANGED <<heap, litA, litC, src, list, numbers, calls, out>>

---------------------------------------------------------------------------
(* Specifications *)

InitCommon ==
    /\ pc = "lit1"
    /\ heap = << >>
    /\ src = Null
    /\ list = Null
    /\ numbers = Null
    /\ items = Null
    /\ calls = 0
    /\ out = << >>

LiteralA == <<N(1), N(2), N(3)>>
LiteralC == <<N(1), N(2), N(3)>>

\* The script as written.
Init ==
    /\ InitCommon
    /\ litA = LiteralA
    /\ litC = LiteralC

Next ==
    \/ Lit1
    \/ Map1
    \/ Log2
    \/ Lit9
    \/ Call11
    \/ Push6
    \/ Ret7
    \/ Log13

Spec == Init /\ [][Next]_vars

\* The script as written, which runs until it ends.
LiveSpec == Spec /\ WF_vars(Next)

\* The two routines on arbitrary inputs: the script with other literals,
\* and with further calls of mutateItems.
SeqsUpTo(S, n) == UNION {[1..m -> S] : m \in 0..n}

Numbers == {Num(k, d) : k \in {-1, 0, 1}, d \in -MaxOff..MaxOff}
Doubles == {x \in Numbers : Representable(x.k, x.d)}
Smalls  == {N(1), N(2), N(3)}

InitFn ==
    /\ InitCommon
    /\ \/ litA \in SeqsUpTo(Doubles, MaxLenA) /\ litC = LiteralC
       \/ litA = LiteralA /\ litC \in SeqsUpTo(Smalls, MaxLenC)

NextFn ==
    \/ Lit1
    \/ Map1
    \/ Log2
    \/ Lit9
    \/ Call11
    \/ Push6
    \/ Ret7
    \/ Log13
    \/ CallAgain

SpecFn == InitFn /\ [][NextFn]_vars

TypeOK ==
    /\ pc \in {"lit1", "map1", "log2", "lit9", "call11", "push6", "ret7",
               "log13", "done", "error"}
    /\ DOMAIN heap \subseteq Addr
    /\ src \in Addr \cup {Null}
    /\ list \in Addr \cup {Null}
    /\ numbers \in Addr \cup {Null}
    /\ items \in Addr \cup {Null}
    /\ calls \in 0..MaxCalls
    /\ Len(out) <= 2

---------------------------------------------------------------------------
(* Properties *)

IsPrefix(s, t) == Len(s) <= Len(t) /\ s = SubSeq(t, 1, Len(s))

AllNumbers(e) == \A i \in 1..Len(e) : e[i].tag = "number"

\* The integers n with -2^53 <= n <= 2^53 - 1, whose successor is exact.
InSafeRange(x) ==
    \/ x.k = 0
    \/ x.k = 1 /\ x.d < 0
    \/ x.k = -1 /\ x.d >= 0

Seq123   == <<N(1), N(2), N(3)>>
Seq234   == <<N(2), N(3), N(4)>>
Seq123HW == <<N(1), N(2), N(3), Str("Hello world")>>

ExpectedOut == <<Seq234, Seq123HW>>

StmtOrder ==
    <<"lit1", "map1", "log2", "lit9", "call11", "push6", "ret7", "log13",
      "done">>

\* C1: a run of the script writes exactly two output events, first
\* [2, 3, 4], then [1, 2, 3, "Hello world"]: at every moment the output so
\* far is a prefix of that pair, and when the script has ended it is the
\* whole pair.
C1_TwoOutputsInOrder ==
    /\ IsPrefix(out, ExpectedOut)
    /\ pc = "done" => out = ExpectedOut

C1_Witness == pc = "done" /\ out = <<Seq234, Seq123HW>>

\* C2, as claimed: for every receiver A of integers, the result of map
\* has the length of A and holds A[i] + 1 at every index i.
C2_MapAddsOneEverywhere ==
    list # Null =>
        /\ Len(Elems(list)) = Len(litA)
        /\ \A i \in 1..Len(litA) : Elems(list)[i] = ExactSucc(litA[i])

\* C2, amended: the result of map has the length of A, and holds A[i] + 1
\* at every index i where -2^53 <= A[i] <= 2^53 - 1.
C2_MapAddsOneInSafeRange ==
    list # Null =>
        /\ Len(Elems(list)) = Len(litA)
        /\ \A i \in 1..Len(litA) :
              InSafeRange(litA[i]) => Elems(list)[i] = ExactSucc(litA[i])

C2_Witness ==
    /\ list # Null
    /\ Len(litA) = 2
    /\ litA[1] = Num(1, -1)
    /\ litA[2] = N(0)
    /\ Elems(list) = <<Num(1, 0), N(1)>>

\* C3: mutateItems works on the caller's array, not on a copy: during the
\* call its parameter is the reference held by numbers, and once a call
\* has returned numbers has length 4, ends in "Hello world" and no longer
\* is [1, 2, 3].
C3_MutationAliases ==
    /\ pc \in {"push6", "ret7"} => items = numbers
    /\ calls >= 1 =>
          /\ Len(Elems(numbers)) = 4
          /\ Elems(numbers)[4] = Str("Hello world")
          /\ Elems(numbers) # Seq123

C3_Witness ==
    /\ pc = "log13"
    /\ calls = 1
    /\ items = Null
    /\ Elems(numbers) = Seq123HW

\* C4: each call of mutateItems appends exactly one element: after k calls
\* on an array of length n the length is n + k (one more while a call has
\* pushed and not yet returned), and one call on [1, 2, 3] gives
\* [1, 2, 3, "Hello world"].
C4_EachCallAppendsOne ==
    numbers # Null =>
        /\ Len(Elems(numbers)) =
              Len(litC) + calls + (IF pc = "ret7" THEN 1 ELSE 0)
        /\ (litC = Seq123 /\ calls = 1 /\ pc = "log13")
              => Elems(numbers) = Seq123HW

C4_Witness ==
    /\ calls = 2
    /\ pc = "log13"
    /\ Len(litC) = 1
    /\ Len(Elems(numbers)) = 3

\* C5: every element of numbers is a number in every state from its
\* creation to the push inside mutateItems, and in every state after the
\* push numbers holds a string.
C5_TypeInvariantBroken ==
    numbers # Null =>
        IF pc \in {"call11", "push6"}
            THEN AllNumbers(Elems(numbers))
            ELSE \E i \in 1..Len(Elems(numbers)) :
                    Elems(numbers)[i].tag = "string"

C5_Witness ==
    /\ pc = "done"
    /\ ~AllNumbers(Elems(numbers))
    /\ AllNumbers(litC)

\* C6: no error is ever reached, every step of the script goes from one
\* statement to the one after it in source order, and the script reaches
\* its end.
C6_NoErrorPath ==
    /\ [](pc # "error")
    /\ [][\E i \in 1..(Len(StmtOrder) - 1) :
              pc = StmtOrder[i] /\ pc' = StmtOrder[i + 1]]_vars
    /\ <>(pc = "done")

C6_Witness ==
    /\ pc = "done"
    /\ calls = 1
    /\ ~heap[numbers].frozen

\* C7: from its creation on list is [2, 3, 4], also after the call of
\* mutateItems, and the receiver of map stays [1, 2, 3].
C7_ListAndSourceUnchanged ==
    /\ list # Null => Elems(list) = Seq234
    /\ src # Null => Elems(src) = Seq123

C7_Witness ==
    /\ pc = "done"
    /\ Elems(numbers) # Seq123
    /\ Elems(list) = Seq234
    /\ Elems(src) = Seq123

\* C8: numbers is printed once, and only after the mutation: when line 13
\* is about to print, a call has returned and numbers is not [1, 2, 3];
\* a second output exists only when the script has ended, and is not
\* [1, 2, 3]; and numbers is changed only after list has been printed.
C8_PrintAfterMutation ==
    /\ pc = "log13" => calls >= 1 /\ Elems(numbers) # Seq123
    /\ Len(out) <= 2
    /\ Len(out) = 2 <=> pc = "done"
    /\ Len(out) = 2 => out[2] # Seq123
    /\ (numbers # Null /\ Elems(numbers) # Seq123) => Len(out) >= 1

C8_Witness ==
    /\ Len(out) = 2
    /\ out[2] = Elems(numbers)
    /\ Len(out[2]) = 4

\* C9: the push of mutateItems only appends: the n elements the array had
\* are the first n elements afterwards, the new element is at index n,
\* and no other array changes.
C9_PushOnlyAppends ==
    [][pc = "push6" =>
          LET e  == heap[items].elems
              e2 == heap'[items].elems
          IN  /\ Len(e2) = Len(e) + 1
              /\ SubSeq(e2, 1, Len(e)) = e
              /\ e2[Len(e) + 1] = Str("Hello world")
              /\ DOMAIN heap' = DOMAIN heap
              /\ \A a \in DOMAIN heap \ {items} : heap'[a] = heap[a]]_vars

C9_Witness ==
    /\ pc = "ret7"
    /\ Len(litC) = 2
    /\ calls = 1
    /\ Elems(numbers) = litC \o <<Str("Hello world"), Str("Hello world")>>

\* C10: with the literal [1, 2, 3], list is exactly [2, 3, 4] when line 2
\* prints it, and that is what is printed.
C10_ListWhenPrinted ==
    /\ pc = "log2" => Elems(list) = Seq234
    /\ Len(out) >= 1 => out[1] = Seq234

C10_Witness ==
    /\ pc = "lit9"
    /\ litA = Seq123
    /\ out = <<Seq234>>

=============================================================================
